---- MODULE Spec2Model ----
(***************************************************************************)
(* DermaDoc frontend core: the authenticated request gateway (apiRequest), *)
(* the streaming chat transport (chatApi.sendMessage), the session store   *)
(* (AuthContext) and the query client's fetch policy.                      *)
(*                                                                         *)
(* Text is modelled as a sequence of tokens.  "NL" is the newline          *)
(* character, "DATA" the six characters of the marker "data: "; every      *)
(* other token is a run of characters without a newline: the text of a     *)
(* JSON object, or text that is not JSON.                                  *)
(***************************************************************************)
EXTENDS Integers, Sequences, FiniteSets, TLC

\* ------------------------------------------------------------- bounds
\* Frames the server writes to one response stream, at most.
MaxFrames == 3
\* Requests of the page in flight at once, at most.
MaxInflight == 2

\* The results the server holds at most.
MaxResults == 2

\* The messages sent in one conversation, and the reads that deliver the
\* answer to one of them, at most.
MaxSends == 2

MaxChatReads == 2

\* --------------------------------------------------- JavaScript values
\* The value of a field that is not there.
Absent == "<undefined>"
\* An array of validation errors (FastAPI's 422 "detail"): an object.
ValidationList == "<array>"

\* JavaScript's truthiness of a string-or-undefined value.
Truthy(v) == v \notin {Absent, ""}

\* String(v), as new Error(v) applies it to its argument.
ToStringJS(v) == IF v = ValidationList THEN "[object Object]" ELSE v

\* ------------------------------------------------ frames on the wire
\* The JSON objects the chat endpoint writes, by the token that stands for
\* the object's text.  chunk and full_response are
\* sequences of letters (<< >> is the empty string or a missing field: the
\* code tests both by truthiness only).
PayloadOf(tok) ==
  CASE tok = "c_a"    -> [chunk |-> <<"a">>, done |-> FALSE, full_response |-> << >>, error |-> Absent]
    [] tok = "c_b"    -> [chunk |-> <<"b">>, done |-> FALSE, full_response |-> << >>, error |-> Absent]
    [] tok = "done"   -> [chunk |-> << >>, done |-> TRUE, full_response |-> << >>, error |-> Absent]
    [] tok = "done_F" -> [chunk |-> << >>, done |-> TRUE, full_response |-> <<"F">>, error |-> Absent]
    [] tok = "err_e"  -> [chunk |-> << >>, done |-> FALSE, full_response |-> << >>, error |-> "Server error"]
    [] tok = "err_x"  -> [chunk |-> << >>, done |-> FALSE, full_response |-> << >>, error |-> "Rate limit exceeded"]

PayloadToks == {"c_a", "c_b", "done", "done_F", "err_e", "err_x"}

\* The kinds of frame a stream is built from: the six payloads above behind
\* the marker, and "bad", a marked line whose payload is not JSON.
FrameKinds == PayloadToks \cup {"bad"}

FrameText(k) == IF k = "bad" THEN <<"DATA", "garbage">> ELSE <<"DATA", k>>

\* The frames a body may break off in: a fragment and a completion.
PartKinds == {"c_a", "done_F"}

\* The blank line that ends a frame.
Delim == <<"NL", "NL">>

RECURSIVE Flatten(_)
\* The text of a sequence of frames, each followed by its delimiter.
Flatten(fs) == IF fs = << >> THEN << >> ELSE FrameText(Head(fs)) \o Delim \o Flatten(Tail(fs))

\* ------------------------------------------------- string operations
RECURSIVE SplitFrom(_, _, _)
SplitFrom(s, i, cur) ==
  IF i > Len(s) THEN <<cur>>
  ELSE IF i < Len(s) /\ s[i] = "NL" /\ s[i + 1] = "NL"
       THEN <<cur>> \o SplitFrom(s, i + 2, << >>)
       ELSE SplitFrom(s, i + 1, Append(cur, s[i]))

\* s.split("\n\n"): the pieces between successive blank lines, left to right.
Split(s) == SplitFrom(s, 1, << >>)

RECURSIVE TrimLeft(_)
TrimLeft(s) == IF s # << >> /\ Head(s) = "NL" THEN TrimLeft(Tail(s)) ELSE s

RECURSIVE TrimRight(_)
TrimRight(s) ==
  IF s # << >> /\ s[Len(s)] = "NL" THEN TrimRight(SubSeq(s, 1, Len(s) - 1)) ELSE s

\* s.trim()
Trim(s) == TrimRight(TrimLeft(s))

\* line.startsWith("data: ")
StartsWithData(line) == line # << >> /\ Head(line) = "DATA"

\* line.slice(6)
Slice6(line) == Tail(line)

\* JSON.parse(text): the object, or a SyntaxError.  White space around the
\* JSON text, a newline included, is allowed by the grammar.
JSONparse(p) ==
  LET t == Trim(p)
  IN IF Len(t) = 1 /\ t[1] \in PayloadToks
     THEN [ok |-> TRUE, data |-> PayloadOf(t[1])]
     ELSE [ok |-> FALSE, data |-> PayloadOf("done")]

\* e.message.includes("error") for the messages the server sends.
IncludesError(msg) == msg \in {"Server error"}

\* ------------------------------------------- HTTP responses and errors
\* The non-success statuses tried.
ErrorStatuses == {401, 403, 422, 500}

\* response.statusText: the reason phrase (HTTP/1.1), or "" (HTTP/2).
ReasonPhrase(status) ==
  CASE status = 401 -> "Unauthorized"
    [] status = 403 -> "Forbidden"
    [] status = 422 -> "Unprocessable Entity"
    [] status = 500 -> "Internal Server Error"
    [] OTHER -> "OK"

\* The bodies of a non-success response: text that is not JSON, the JSON
\* value null, and JSON objects with or without "detail" and "message".
ErrorBodies ==
  {[kind |-> "text", detail |-> Absent, message |-> Absent],
   [kind |-> "null", detail |-> Absent, message |-> Absent]}
  \cup [kind : {"object"},
        detail : {Absent, "", "Invalid credentials", ValidationList},
        message : {Absent, "", "Something failed"}]

ErrorResponses ==
  {r \in [status : ErrorStatuses, statusText : {"", "Unauthorized", "Forbidden",
                                                 "Unprocessable Entity", "Internal Server Error"},
          body : ErrorBodies] :
     r.statusText \in {"", ReasonPhrase(r.status)}}

\* `HTTP error! status: ${response.status}`
HttpErrorText(status) == "HTTP error! status: " \o ToString(status)

\* await response.json().catch(() => ({ detail: response.statusText }))
ErrorBody(resp) ==
  IF resp.body.kind = "text"
  THEN [kind |-> "object", detail |-> resp.statusText, message |-> Absent]
  ELSE resp.body

\* A slip: "message" is preferred to "detail".
FirstTruthyMessageFirst(error, fallback) ==
  IF Truthy(error.message) THEN error.message
  ELSE IF Truthy(error.detail) THEN error.detail
  ELSE fallback

\* error.detail || error.message || `HTTP error! status: ...`
FirstTruthy(error, fallback) ==
  IF Truthy(error.detail) THEN error.detail
  ELSE IF Truthy(error.message) THEN error.message
  ELSE fallback

\* The message of the error a non-success response raises (api.js 41-43;
\* the same two lines at 109-110 and 148-149).  Reading a field of null
\* raises a TypeError instead.
ErrorMessage(resp) ==
  LET error == ErrorBody(resp)
  IN IF error.kind = "null" THEN "TypeError"
     ELSE ToStringJS(FirstTruthy(error, HttpErrorText(resp.status)))

\* ------------------------------------------------------------ state
VARIABLES
  \* -- streaming chat transport (chatApi.sendMessage, streaming mode)
  conversationHistory,   \* the history argument of the call
  syntaxErrorSaysError,  \* whether the engine's JSON.parse message contains "error"
  frames,                \* the frames the server has written so far, whole
  tail,                  \* a last frame the server wrote only in part before closing
  closed,                \* the server has ended the response body
  nread,                 \* tokens of the body that reads have delivered
  tx,                    \* the call: its locals, its promise, its callback's invocations
  \* -- session store (AuthContext) and the requests of the page
  localStorage,          \* [token, user]: the two keys the session persists
  auth,                  \* [user, isAuthenticated, isLoading]: AuthProvider's state
  validation,            \* validateAndRestoreAuth: unmounted | waiting | finished
  inflight,              \* the requests sent and not yet settled
  lastEvent,             \* the response the last step received, if it received one
  \* -- one apiRequest call seen alone
  gw,                    \* [pc, response, storage, events, thrown, returned]
  \* -- query client (QueryClient) and the results page
  serverResults,         \* the statuses of the results the server holds
  queries,               \* per key: the state of the query or mutation
  \* -- conversation (Chatbot)
  chat,                  \* [messages, streamingMessageId, streamingContent, clock, last]
  chatStorage,           \* per user: the value under the key dermadoc_chat_<email>
  exchanges              \* the handleSend calls awaiting their sendMessage call, oldest first

streamVars == <<conversationHistory, syntaxErrorSaysError, frames, tail, closed, nread, tx>>

authVars == <<localStorage, auth, validation, inflight, lastEvent>>

queryVars == <<serverResults, queries>>

chatVars == <<chat, chatStorage, exchanges>>

vars == <<conversationHistory, syntaxErrorSaysError, frames, tail, closed, nread, tx,
          localStorage, auth, validation, inflight, lastEvent, gw,
          serverResults, queries, chat, chatStorage, exchanges>>

\* ------------------------------------------- streaming chat transport
\* The message argument of the call.
message == <<"q">>

UserMessage(text) == [role |-> "user", content |-> text]
AssistantMessage(text) == [role |-> "assistant", content |-> text]

\* The history arguments tried: none, and a committed exchange.
Histories == {<< >>, <<UserMessage(<<"h">>), AssistantMessage(<<"i">>)>>}

\* Everything the server has written to the response body.
AllText == Flatten(frames) \o tail

\* What is written and not yet delivered by a read.
Wire == SubSeq(AllText, nread + 1, Len(AllText))

\* The locals of the call after const reader = response.body.getReader().
\* outcome is the promise's state; calls lists onChunk's invocations in order;
\* ctl is how the last step left the while loop (next | return | throw);
\* reader is what reader.read() last reported (open | done | errored);
\* sawDone and sawError record which frames the for loop has handled.
TxStart ==
  [pc |-> "fetch", buffer |-> << >>, fullResponse |-> << >>, streamComplete |-> FALSE,
   calls |-> << >>, outcome |-> "pending", response |-> << >>, history |-> << >>,
   error |-> "", lock |-> "none", reader |-> "open", ctl |-> "next", sawDone |-> FALSE, sawError |-> Absent]

\* A slip: the user message is left out.
UpdatedHistoryWithoutUser(hist, msg, text) == hist \o <<AssistantMessage(text)>>

\* [...conversationHistory, {user}, {assistant}]
UpdatedHistory(hist, msg, text) == hist \o <<UserMessage(msg), AssistantMessage(text)>>

\* resolve({response, conversation_history}); a settled promise stays as it is.
Resolve(st) ==
  IF st.outcome # "pending" THEN st
  ELSE [st EXCEPT !.outcome = "resolved",
                  !.response = st.fullResponse,
                  !.history = UpdatedHistory(conversationHistory, message, st.fullResponse)]

\* reject(error)
Reject(st, msg) ==
  IF st.outcome # "pending" THEN st
  ELSE [st EXCEPT !.outcome = "rejected", !.error = msg]

\* onChunk(chunk, done)
OnChunk(st, chunk, done) == [st EXCEPT !.calls = Append(@, [chunk |-> chunk, done |-> done])]

\* A slip: fullResponse = data.chunk
AccumulateOverwrites(acc, chunk) == chunk

\* fullResponse += data.chunk
Accumulate(acc, chunk) == acc \o chunk

\* if (data.full_response) fullResponse = data.full_response
Override(acc, data) == IF data.full_response # << >> THEN data.full_response ELSE acc

\* The catch of the for loop's try: rethrow when the message includes "error".
CatchRethrows(isSyntaxError, msg) ==
  IF isSyntaxError THEN syntaxErrorSaysError ELSE IncludesError(msg)

Throw(st, isSyntaxError, msg) ==
  IF CatchRethrows(isSyntaxError, msg)
  THEN [st EXCEPT !.ctl = "throw", !.error = msg]
  ELSE st

\* One pass of the for loop's body over a complete line.
ProcLine(st, line) ==
  IF ~(Trim(line) # << >> /\ StartsWithData(line)) THEN st
  ELSE LET p == JSONparse(Slice6(line)) IN
    IF ~p.ok THEN Throw(st, TRUE, "SyntaxError")
    ELSE LET data == p.data
             s1 == IF data.chunk # << >>
                   THEN OnChunk([st EXCEPT !.fullResponse = Accumulate(@, data.chunk)],
                                data.chunk, FALSE)
                   ELSE st
         IN IF data.done
            THEN LET s2 == [s1 EXCEPT !.fullResponse = Override(@, data),
                                      !.streamComplete = TRUE,
                                      !.sawDone = TRUE]
                 IN [Resolve(OnChunk(s2, << >>, TRUE)) EXCEPT !.ctl = "return"]
            ELSE IF Truthy(data.error)
            THEN LET s3 == [s1 EXCEPT !.streamComplete = TRUE,
                                      !.sawError = IF @ = Absent THEN data.error ELSE @]
                 IN Throw(OnChunk(s3, << >>, TRUE), FALSE, data.error)
            ELSE s1

RECURSIVE ProcLines(_, _, _)
\* for (const line of lines), from the i-th line on
ProcLines(st, lines, i) ==
  IF i > Len(lines) THEN st
  ELSE LET s1 == ProcLine(st, lines[i])
       IN IF s1.ctl # "next" THEN s1 ELSE ProcLines(s1, lines, i + 1)

\* A slip: the unfinished last piece is dropped instead of kept.
RetainNothing(lines) == << >>

\* buffer = lines.pop() || ""
Retain(lines) == lines[Len(lines)]

\* A slip: the lock is released after the loop, not in a finally.
LeaveWithoutFinally(st) ==
  IF st.ctl = "throw" THEN Reject([st EXCEPT !.pc = "end"], st.error)
  ELSE [st EXCEPT !.lock = "released", !.pc = "end"]

\* The finally block and the outer catch, once the while loop is left.
Leave(st) ==
  LET s1 == [st EXCEPT !.lock = "released", !.pc = "end"]
  IN IF st.ctl = "throw" THEN Reject(s1, st.error) ELSE s1

\* A read that delivers value: lines 192-232.
OnRead(st, value) ==
  LET buf == st.buffer \o value
      lines == Split(buf)
      s1 == ProcLines([st EXCEPT !.buffer = Retain(lines)],
                      SubSeq(lines, 1, Len(lines) - 1), 1)
  IN IF s1.ctl = "next" THEN s1 ELSE Leave(s1)

RECURSIVE FinalLines(_, _, _)
\* The for loop of the done branch: only a completion payload is looked for.
FinalLines(st, lines, i) ==
  IF i > Len(lines) THEN st
  ELSE IF StartsWithData(lines[i])
       THEN LET p == JSONparse(Slice6(lines[i])) IN
            IF p.ok /\ p.data.done
            THEN [st EXCEPT !.fullResponse = Override(@, p.data), !.streamComplete = TRUE]
            ELSE FinalLines(st, lines, i + 1)
       ELSE FinalLines(st, lines, i + 1)

\* buffer.split("\n\n").filter(line => line.trim())
NonBlankLines(buf) == SelectSeq(Split(buf), LAMBDA l : Trim(l) # << >>)

\* A read that reports done: lines 162-190, then 235-246 and the finally.
OnDone(st) ==
  LET s0 == [st EXCEPT !.reader = "done"]
      s1 == IF ~s0.streamComplete /\ Trim(s0.buffer) # << >>
            THEN FinalLines(s0, NonBlankLines(s0.buffer), 1)
            ELSE s0
      s2 == [s1 EXCEPT !.streamComplete = TRUE]
      s3 == IF ~s2.streamComplete THEN Resolve(OnChunk(s2, << >>, TRUE)) ELSE s2
  IN Leave(s3)

\* reader.read() rejects (the connection breaks): the finally, then reject.
OnReadError(st) ==
  Leave([st EXCEPT !.reader = "errored", !.ctl = "throw", !.error = "network error"])

\* ------------------------------------------------ gateway: apiRequest
Users == {"u1", "u2"}
NoUser == "<null>"
NoToken == "<null>"

TokenOf(u) == IF u = "u1" THEN "t1" ELSE "t2"
UserOfToken(t) == IF t = "t1" THEN "u1" ELSE IF t = "t2" THEN "u2" ELSE NoUser

\* What the two keys hold when a page loads: nothing, or a session.
StoredSessions ==
  {[token |-> NoToken, user |-> NoUser]} \cup {[token |-> TokenOf(u), user |-> u] : u \in Users}

\* localStorage.removeItem("token"); localStorage.removeItem("user")
RemoveTokenAndUser(storage) == [storage EXCEPT !.token = NoToken, !.user = NoUser]

\* A slip: only the token is removed.
OnNotOkRemovesTokenOnly(storage, status) ==
  IF status = 401 THEN [storage EXCEPT !.token = NoToken] ELSE storage

\* apiRequest, lines 30-33: the storage after a non-success response.
OnNotOk(storage, status) ==
  IF status = 401 THEN RemoveTokenAndUser(storage) ELSE storage

\* apiRequest, lines 36-38: the auth:logout events dispatched for a response.
LogoutEvents(status) == IF status = 401 THEN 1 ELSE 0

\* One call of apiRequest, from the request sent to the promise settled.
GwInit ==
  gw \in [pc : {"sent"}, status : {0}, response : {CHOOSE r \in ErrorResponses : TRUE},
          storage : StoredSessions, events : {0}, thrown : {Absent}]

GwIdle ==
  gw = [pc |-> "idle", status |-> 0, response |-> CHOOSE r \in ErrorResponses : TRUE,
        storage |-> [token |-> NoToken, user |-> NoUser], events |-> 0, thrown |-> Absent]

\* fetch resolves with an ok response; response.json() is returned.
GwOk ==
  /\ gw.pc = "sent"
  /\ gw' = [gw EXCEPT !.pc = "returned", !.status = 200]
  /\ UNCHANGED <<streamVars, authVars, queryVars, chatVars>>

\* fetch resolves with a non-success response: lines 28-39, up to the await
\* of the error body.
GwNotOk ==
  /\ gw.pc = "sent"
  /\ \E resp \in ErrorResponses :
       gw' = [gw EXCEPT !.pc = "body", !.status = resp.status, !.response = resp,
                        !.storage = OnNotOk(@, resp.status),
                        !.events = @ + LogoutEvents(resp.status)]
  /\ UNCHANGED <<streamVars, authVars, queryVars, chatVars>>

\* The error body is read: lines 41-43.
GwThrows ==
  /\ gw.pc = "body"
  /\ gw' = [gw EXCEPT !.pc = "thrown", !.thrown = ErrorMessage(gw.response)]
  /\ UNCHANGED <<streamVars, authVars, queryVars, chatVars>>

\* fetch rejects.
GwFetchFails ==
  /\ gw.pc = "sent"
  /\ gw' = [gw EXCEPT !.pc = "thrown", !.thrown = "network error"]
  /\ UNCHANGED <<streamVars, authVars, queryVars, chatVars>>

GwNext == GwOk \/ GwNotOk \/ GwThrows \/ GwFetchFails

\* ----------------------------------------------- the stream's actions
StreamInit ==
  /\ conversationHistory \in Histories
  /\ syntaxErrorSaysError \in BOOLEAN
  /\ frames = << >>
  /\ tail = << >>
  /\ closed = FALSE
  /\ nread = 0
  /\ tx = TxStart

StreamIdle ==
  /\ conversationHistory = << >>
  /\ syntaxErrorSaysError = FALSE
  /\ frames = << >>
  /\ tail = << >>
  /\ closed = FALSE
  /\ nread = 0
  /\ tx = [TxStart EXCEPT !.pc = "idle"]

\* fetch resolves with an ok response: the reader is acquired (line 152).
FetchOk ==
  /\ tx.pc = "fetch"
  /\ tx' = [tx EXCEPT !.pc = "read", !.lock = "held"]
  /\ UNCHANGED <<authVars, gw, queryVars, chatVars>>
  /\ UNCHANGED <<conversationHistory, syntaxErrorSaysError, frames, tail, closed, nread>>

\* fetch resolves with a non-success response (lines 147-150).
FetchNotOk ==
  /\ tx.pc = "fetch"
  /\ \E resp \in ErrorResponses :
       tx' = Reject([tx EXCEPT !.pc = "end"], ErrorMessage(resp))
  /\ UNCHANGED <<authVars, gw, queryVars, chatVars>>
  /\ UNCHANGED <<conversationHistory, syntaxErrorSaysError, frames, tail, closed, nread>>

\* fetch rejects (no connection).
FetchFails ==
  /\ tx.pc = "fetch"
  /\ tx' = Reject([tx EXCEPT !.pc = "end"], "network error")
  /\ UNCHANGED <<authVars, gw, queryVars, chatVars>>
  /\ UNCHANGED <<conversationHistory, syntaxErrorSaysError, frames, tail, closed, nread>>

\* The server writes one whole frame and its delimiter.
ServerWrites ==
  /\ tx.pc = "read"
  /\ ~closed
  /\ Len(frames) < MaxFrames
  /\ \E k \in FrameKinds : frames' = Append(frames, k)
  /\ UNCHANGED <<authVars, gw, queryVars, chatVars>>
  /\ UNCHANGED <<conversationHistory, syntaxErrorSaysError, tail, closed, nread, tx>>

\* The server writes the beginning of a frame and the body ends there.
ServerWritesPart ==
  /\ tx.pc = "read"
  /\ ~closed
  /\ Len(frames) < MaxFrames
  /\ \E k \in PartKinds :
       \E n \in 1..(Len(FrameText(k)) + 1) :
         tail' = SubSeq(FrameText(k) \o Delim, 1, n)
  /\ closed' = TRUE
  /\ UNCHANGED <<authVars, gw, queryVars, chatVars>>
  /\ UNCHANGED <<conversationHistory, syntaxErrorSaysError, frames, nread, tx>>

\* The server ends the body after a whole frame.
ServerCloses ==
  /\ tx.pc = "read"
  /\ ~closed
  /\ closed' = TRUE
  /\ UNCHANGED <<authVars, gw, queryVars, chatVars>>
  /\ UNCHANGED <<conversationHistory, syntaxErrorSaysError, frames, tail, nread, tx>>

\* reader.read() resolves with the next n tokens of the body.
Read ==
  /\ tx.pc = "read"
  /\ \E n \in 1..Len(Wire) :
       /\ tx' = OnRead(tx, SubSeq(Wire, 1, n))
       /\ nread' = nread + n
  /\ UNCHANGED <<authVars, gw, queryVars, chatVars>>
  /\ UNCHANGED <<conversationHistory, syntaxErrorSaysError, frames, tail, closed>>

\* reader.read() resolves with done: the body has ended and is read up.
ReadDone ==
  /\ tx.pc = "read"
  /\ closed
  /\ Wire = << >>
  /\ tx' = OnDone(tx)
  /\ UNCHANGED <<authVars, gw, queryVars, chatVars>>
  /\ UNCHANGED <<conversationHistory, syntaxErrorSaysError, frames, tail, closed, nread>>

\* reader.read() rejects: the connection breaks where the written body ends.
ReadError ==
  /\ tx.pc = "read"
  /\ ~closed
  /\ Wire = << >>
  /\ tx' = OnReadError(tx)
  /\ UNCHANGED <<authVars, gw, queryVars, chatVars>>
  /\ UNCHANGED <<conversationHistory, syntaxErrorSaysError, frames, tail, closed, nread>>

StreamNext ==
  \/ FetchOk \/ FetchNotOk \/ FetchFails
  \/ ServerWrites \/ ServerWritesPart \/ ServerCloses
  \/ Read \/ ReadDone \/ ReadError

\* ------------------------------------------ session store: AuthContext
\* The requests that go through apiRequest, and the two that call fetch
\* themselves (authApi.uploadImage, the streaming chatApi.sendMessage).
GatewayOps == {"me", "login", "logoutMutation", "logout", "updateProfile", "other"}
RawOps == {"uploadImage", "chat"}

Via(op) == IF op \in GatewayOps THEN "apiRequest" ELSE "fetch"

\* A request: its operation, the token read from storage when it was sent,
\* for a login the account, and whether a non-success response has arrived
\* whose error body is still being read.
Request(op, sent, who) == [op |-> op, sent |-> sent, who |-> who, phase |-> "sent"]

\* teardown names the teardown the last step completed, if it completed one.
NoEvent == [via |-> "none", status |-> 0, events |-> 0, teardown |-> "none"]

SignedOut == [user |-> NoUser, isAuthenticated |-> FALSE, isLoading |-> TRUE]

AuthInit ==
  /\ localStorage \in StoredSessions
  /\ auth = SignedOut
  /\ validation = "unmounted"
  /\ inflight = {}
  /\ lastEvent = NoEvent

AuthIdle ==
  /\ localStorage = [token |-> NoToken, user |-> NoUser]
  /\ auth = SignedOut
  /\ validation = "idle"
  /\ inflight = {}
  /\ lastEvent = NoEvent

\* The session as the operations below read and write it.
Session == [storage |-> localStorage, auth |-> auth]

SetSession(s) == localStorage' = s.storage /\ auth' = s.auth

\* login(userData, token): AuthContext lines 65-80.
Login(s, userData, token) ==
  [storage |-> [token |-> IF token # NoToken THEN token ELSE s.storage.token,
                user |-> userData],
   auth |-> [s.auth EXCEPT !.user = userData, !.isAuthenticated = TRUE]]

\* A slip: the user is kept.
HandleAuthLogoutKeepsUser(a) == [a EXCEPT !.isAuthenticated = FALSE]

\* handleAuthLogout: AuthContext lines 55-59.
HandleAuthLogout(a) == [a EXCEPT !.user = NoUser, !.isAuthenticated = FALSE]

\* The finally of logout: AuthContext lines 87-92.
LogoutFinally(s) ==
  [storage |-> RemoveTokenAndUser(s.storage), auth |-> HandleAuthLogout(s.auth)]

\* validateAndRestoreAuth after getCurrentUser resolves: lines 21-37, 47.
ValidateSuccess(s, userData) ==
  IF userData # NoUser
  THEN [storage |-> [s.storage EXCEPT !.user = userData],
        auth |-> [user |-> userData, isAuthenticated |-> TRUE, isLoading |-> FALSE]]
  ELSE [storage |-> RemoveTokenAndUser(s.storage),
        auth |-> [s.auth EXCEPT !.isLoading = FALSE]]

\* validateAndRestoreAuth after getCurrentUser throws: lines 38-47.
ValidateFailure(s) ==
  [storage |-> RemoveTokenAndUser(s.storage),
   auth |-> [user |-> NoUser, isAuthenticated |-> FALSE, isLoading |-> FALSE]]

\* A non-success response reaches apiRequest while AuthProvider listens.
Unauthorized(s, status) ==
  [storage |-> OnNotOk(s.storage, status),
   auth |-> IF LogoutEvents(status) > 0 THEN HandleAuthLogout(s.auth) ELSE s.auth]

Mounted == validation \in {"waiting", "finished"}
InFlight(op) == \E r \in inflight : r.op = op
Room == Cardinality(inflight) < MaxInflight

\* The server answers 200 to a login, and to a request that carried a token.
CanSucceed(r) == r.phase = "sent" /\ (r.op = "login" \/ r.sent # NoToken)

\* AuthProvider mounts: validateAndRestoreAuth up to its await (lines 13-20),
\* or to its end when nothing is stored.
Mount ==
  /\ validation = "unmounted"
  /\ IF localStorage.user # NoUser /\ localStorage.token # NoToken
     THEN /\ inflight' = inflight \cup {Request("me", localStorage.token, NoUser)}
          /\ validation' = "waiting"
          /\ UNCHANGED auth
     ELSE /\ auth' = [auth EXCEPT !.isLoading = FALSE]
          /\ validation' = "finished"
          /\ UNCHANGED inflight
  /\ lastEvent' = NoEvent
  /\ UNCHANGED <<localStorage, streamVars, gw, queryVars, chatVars>>

\* The login or signup form is submitted.
StartLogin ==
  /\ Mounted /\ ~auth.isAuthenticated /\ ~InFlight("login") /\ Room
  /\ \E u \in Users : inflight' = inflight \cup {Request("login", localStorage.token, u)}
  /\ lastEvent' = NoEvent
  /\ UNCHANGED <<localStorage, auth, validation, streamVars, gw, queryVars, chatVars>>

\* The navbar's Logout button: useLogout's mutationFn.
StartLogout ==
  /\ Mounted /\ auth.isAuthenticated /\ Room
  /\ ~InFlight("logoutMutation") /\ ~InFlight("logout")
  /\ inflight' = inflight \cup {Request("logoutMutation", localStorage.token, NoUser)}
  /\ lastEvent' = NoEvent
  /\ UNCHANGED <<localStorage, auth, validation, streamVars, gw, queryVars, chatVars>>

\* The profile page saves the form or uploads an image; the chatbot sends;
\* any other page calls the gateway.
StartRequest ==
  /\ Mounted /\ auth.isAuthenticated /\ Room
  /\ \E op \in {"updateProfile", "uploadImage", "chat", "other"} :
       /\ ~InFlight(op)
       /\ inflight' = inflight \cup {Request(op, localStorage.token, NoUser)}
  /\ lastEvent' = NoEvent
  /\ UNCHANGED <<localStorage, auth, validation, streamVars, gw, queryVars, chatVars>>

\* A non-success response reaches apiRequest: lines 28-39.
GatewayNotOk ==
  /\ \E r \in inflight : \E status \in {401, 500} :
       /\ r.phase = "sent" /\ r.op \in GatewayOps
       /\ SetSession(Unauthorized(Session, status))
       /\ inflight' = (inflight \ {r}) \cup {[r EXCEPT !.phase = "body"]}
       /\ lastEvent' = [via |-> "apiRequest", status |-> status, events |-> LogoutEvents(status),
                        teardown |-> IF status = 401 THEN "unauthorized" ELSE "none"]
  /\ UNCHANGED <<validation, streamVars, gw, queryVars, chatVars>>

\* A non-success response reaches uploadImage (lines 108-109) or the
\* streaming sendMessage (lines 147-148).
RawNotOk ==
  /\ \E r \in inflight : \E status \in {401, 500} :
       /\ r.phase = "sent" /\ r.op \in RawOps
       /\ inflight' = (inflight \ {r}) \cup {[r EXCEPT !.phase = "body"]}
       /\ lastEvent' = [via |-> "fetch", status |-> status, events |-> 0, teardown |-> "none"]
  /\ UNCHANGED <<localStorage, auth, validation, streamVars, gw, queryVars, chatVars>>

\* getCurrentUser resolves in validateAndRestoreAuth.
ValidationSucceeds ==
  /\ \E r \in inflight : \E userData \in {UserOfToken(r.sent), NoUser} :
       /\ r.op = "me" /\ CanSucceed(r)
       /\ SetSession(ValidateSuccess(Session, userData))
       /\ inflight' = inflight \ {r}
  /\ validation' = "finished"
  /\ lastEvent' = NoEvent
  /\ UNCHANGED <<streamVars, gw, queryVars, chatVars>>

\* getCurrentUser throws in validateAndRestoreAuth.
ValidationFails ==
  /\ \E r \in inflight :
       /\ r.op = "me"
       /\ SetSession(ValidateFailure(Session))
       /\ inflight' = inflight \ {r}
  /\ validation' = "finished"
  /\ lastEvent' = [NoEvent EXCEPT !.teardown = "validation"]
  /\ UNCHANGED <<streamVars, gw, queryVars, chatVars>>

\* useLogin / useSignup onSuccess: login(data.user, data.access_token).
LoginSucceeds ==
  /\ \E r \in inflight :
       /\ r.op = "login" /\ CanSucceed(r)
       /\ SetSession(Login(Session, r.who, TokenOf(r.who)))
       /\ inflight' = inflight \ {r}
  /\ lastEvent' = NoEvent
  /\ UNCHANGED <<validation, streamVars, gw, queryVars, chatVars>>

\* useLogout onSuccess and onError: logout() runs to its await (line 84).
LogoutMutationSettles ==
  /\ \E r \in inflight :
       /\ r.op = "logoutMutation"
       /\ inflight' = (inflight \ {r}) \cup {Request("logout", localStorage.token, NoUser)}
  /\ lastEvent' = NoEvent
  /\ UNCHANGED <<localStorage, auth, validation, streamVars, gw, queryVars, chatVars>>

\* logout(): authApi.logout() settles either way, then the finally.
LogoutSettles ==
  /\ \E r \in inflight :
       /\ r.op = "logout"
       /\ SetSession(LogoutFinally(Session))
       /\ inflight' = inflight \ {r}
  /\ lastEvent' = [NoEvent EXCEPT !.teardown = "logout"]
  /\ UNCHANGED <<validation, streamVars, gw, queryVars, chatVars>>

\* updateProfileMutation / uploadImageMutation onSuccess:
\* login(data, localStorage.getItem("token")).
ProfileSucceeds ==
  /\ \E r \in inflight :
       /\ r.op \in {"updateProfile", "uploadImage"} /\ CanSucceed(r)
       /\ SetSession(Login(Session, UserOfToken(r.sent), localStorage.token))
       /\ inflight' = inflight \ {r}
  /\ lastEvent' = NoEvent
  /\ UNCHANGED <<validation, streamVars, gw, queryVars, chatVars>>

\* A chat or other request resolves: nothing of the session changes.
RequestSucceeds ==
  /\ \E r \in inflight :
       /\ r.op \in {"chat", "other"} /\ CanSucceed(r)
       /\ inflight' = inflight \ {r}
  /\ lastEvent' = NoEvent
  /\ UNCHANGED <<localStorage, auth, validation, streamVars, gw, queryVars, chatVars>>

\* A request whose caller only reports the failure throws (its error body
\* is read, or its fetch rejects).
RequestFails ==
  /\ \E r \in inflight :
       /\ r.op \in {"login", "updateProfile", "uploadImage", "chat", "other"}
       /\ inflight' = inflight \ {r}
  /\ lastEvent' = NoEvent
  /\ UNCHANGED <<localStorage, auth, validation, streamVars, gw, queryVars, chatVars>>

AuthNext ==
  \/ Mount \/ StartLogin \/ StartLogout \/ StartRequest
  \/ GatewayNotOk \/ RawNotOk
  \/ ValidationSucceeds \/ ValidationFails
  \/ LoginSucceeds \/ LogoutMutationSettles \/ LogoutSettles
  \/ ProfileSucceeds \/ RequestSucceeds \/ RequestFails

\* ---------------------------------- query client and the results page
\* defaultOptions.queries.retry of the QueryClient: the number of times a
\* query that sets no retry of its own is fetched again after a failure.
QueryRetry == 1

\* The refetch interval, in milliseconds, the results query asks for while
\* a result is not final; NoInterval is the `false` it returns otherwise.
RefetchDelay == 3000

NoInterval == 0

ResultStatuses == {"pending", "processing", "processed", "failed"}

\* The statuses the analysis of a result can move to next.
Advance(status) ==
  CASE status = "pending" -> {"processing"}
    [] status = "processing" -> {"processed", "failed"}
    [] OTHER -> {}

ResultLists == UNION {[1..n -> ResultStatuses] : n \in 0..MaxResults}

\* The results query of the results page, the current-user query, and the
\* login mutation.
Keys == {"skinCheckResults", "currentUser", "login"}

\* The retry option in force for a key: the results query sets none and
\* takes the client's default; the current-user query sets retry: false;
\* the client's defaults configure queries only, and no mutation sets one.
RetryOf(key) ==
  CASE key = "skinCheckResults" -> QueryRetry
    [] key = "currentUser" -> 0
    [] key = "login" -> 0

\* The client's decision with the comparison off by one.
ShouldRetryOnceMore(failureCount, retry) == failureCount <= retry

\* The query client's decision after a failed attempt, failureCount being
\* the failures of this fetch before it.
ShouldRetry(failureCount, retry) == failureCount < retry

\* query.state.data: nothing yet, an array of results, or another value.
Undefined == [kind |-> "undefined", items |-> << >>]

ArrayOf(items) == [kind |-> "array", items |-> items]

NotAnArray == [kind |-> "object", items |-> << >>]

\* A slip: only "processing" keeps the interval.
RefetchIntervalProcessingOnly(data) ==
  IF data.kind # "array" THEN NoInterval
  ELSE IF \E i \in 1..Len(data.items) : data.items[i] = "processing"
       THEN RefetchDelay
       ELSE NoInterval

\* A slip: any list keeps the interval.
RefetchIntervalAnyList(data) ==
  IF data.kind # "array" THEN NoInterval ELSE RefetchDelay

\* The refetchInterval option of the results query.
RefetchInterval(data) ==
  IF data.kind # "array" THEN NoInterval
  ELSE IF \E i \in 1..Len(data.items) : data.items[i] \in {"processing", "pending"}
       THEN RefetchDelay
       ELSE NoInterval

IntervalOf(key, data) ==
  IF key = "skinCheckResults" THEN RefetchInterval(data) ELSE NoInterval

\* attempts counts the requests sent for the fetch in progress or the last
\* one; trigger names what started that fetch.
Fresh ==
  [status |-> "idle", failureCount |-> 0, attempts |-> 0, data |-> Undefined,
   interval |-> NoInterval, trigger |-> "none"]

StartFetch(q, trigger) ==
  [q EXCEPT !.status = "fetching", !.failureCount = 0, !.attempts = 1,
            !.trigger = trigger]

Settled(q) == q.status \in {"success", "error"}

\* What a successful response to the key's request carries.
Bodies(key) ==
  IF key = "skinCheckResults" THEN {ArrayOf(serverResults), NotAnArray}
  ELSE {NotAnArray}

QueryInit ==
  /\ serverResults \in ResultLists
  /\ queries = [k \in Keys |-> Fresh]

QueryIdle ==
  /\ serverResults = << >>
  /\ queries = [k \in Keys |-> Fresh]

\* A component using the query mounts with the query enabled.
QueryMounts ==
  /\ \E k \in {"skinCheckResults", "currentUser"} :
       /\ queries[k].status = "idle"
       /\ queries' = [queries EXCEPT ![k] = StartFetch(queries[k], "mount")]
  /\ UNCHANGED <<serverResults, streamVars, authVars, gw, chatVars>>

\* The user presses Try Again or Refresh on the results page, or submits
\* the login form.
UserRepeats ==
  /\ \E k \in {"skinCheckResults", "login"} :
       /\ Settled(queries[k]) \/ (k = "login" /\ queries[k].status = "idle")
       /\ queries' = [queries EXCEPT ![k] = StartFetch(@, "user")]
  /\ UNCHANGED <<serverResults, streamVars, authVars, gw, chatVars>>

\* The refetch interval of a settled query elapses.
IntervalFires ==
  /\ \E k \in Keys :
       /\ Settled(queries[k])
       /\ queries[k].interval # NoInterval
       /\ queries' = [queries EXCEPT ![k] = StartFetch(@, "interval")]
  /\ UNCHANGED <<serverResults, streamVars, authVars, gw, chatVars>>

AttemptSucceeds ==
  /\ \E k \in Keys :
       /\ queries[k].status = "fetching"
       /\ \E body \in Bodies(k) :
            queries' = [queries EXCEPT ![k] =
              [queries[k] EXCEPT !.status = "success", !.data = body,
                                 !.interval = IntervalOf(k, body)]]
  /\ UNCHANGED <<serverResults, streamVars, authVars, gw, chatVars>>

\* The request of the attempt throws: the client waits to send it again, or
\* gives the error to the component.
AttemptFails ==
  /\ \E k \in Keys :
       LET q == queries[k]
       IN /\ q.status = "fetching"
          /\ queries' = [queries EXCEPT ![k] =
               IF ShouldRetry(q.failureCount, RetryOf(k))
               THEN [q EXCEPT !.status = "paused", !.failureCount = @ + 1]
               ELSE [q EXCEPT !.status = "error", !.failureCount = @ + 1,
                              !.interval = IntervalOf(k, q.data)]]
  /\ UNCHANGED <<serverResults, streamVars, authVars, gw, chatVars>>

\* The retry delay elapses and the client sends the request again.
RetryFires ==
  /\ \E k \in Keys :
       /\ queries[k].status = "paused"
       /\ queries' = [queries EXCEPT ![k] =
            [queries[k] EXCEPT !.status = "fetching", !.attempts = @ + 1]]
  /\ UNCHANGED <<serverResults, streamVars, authVars, gw, chatVars>>

\* The analysis of a result moves on.
ServerAdvances ==
  /\ \E i \in 1..Len(serverResults), next \in ResultStatuses :
       /\ next \in Advance(serverResults[i])
       /\ serverResults' = [serverResults EXCEPT ![i] = next]
  /\ UNCHANGED <<queries, streamVars, authVars, gw, chatVars>>

\* An image is submitted for analysis.
ServerAdds ==
  /\ Len(serverResults) < MaxResults
  /\ serverResults' = Append(serverResults, "pending")
  /\ UNCHANGED <<queries, streamVars, authVars, gw, chatVars>>

QueryNext ==
  \/ QueryMounts \/ UserRepeats \/ IntervalFires
  \/ AttemptSucceeds \/ AttemptFails \/ RetryFires
  \/ ServerAdvances \/ ServerAdds

\* ------------------------------------------------ conversation: Chatbot
\* streamingMessageId when nothing streams.
NoId == "<null>"

\* INITIAL_MESSAGE
Greeting == [id |-> Absent, role |-> "assistant", content |-> <<"hello">>]

\* { role: "user", content: userMessage }
UserEntry(text) == [id |-> Absent, role |-> "user", content |-> text]

\* { id: messageId, role: "assistant", content: "" }
Placeholder(id) == [id |-> id, role |-> "assistant", content |-> << >>]

\* A slip: the clock stands still.
MessageIdStale(clock) == "1"

\* Date.now().toString(), the clock having advanced between two sends.
MessageId(clock) == ToString(clock)

\* What localStorage.getItem gives for a user's key: null, a text that does
\* not parse, or the text of an array.
NoEntry == [kind |-> "absent", items |-> << >>]

Unparsable == [kind |-> "garbage", items |-> << >>]

\* JSON.stringify(messages)
Stringify(msgs) == [kind |-> "array", items |-> msgs]

\* JSON.parse(savedChat): the value, or a SyntaxError.
ParseChat(entry) == [ok |-> entry.kind # "garbage", value |-> entry]

\* A conversation persisted by an earlier visit: the assistant's reply still
\* carries the id it was streamed under.
SavedChat ==
  <<Greeting, UserEntry(<<"h">>), [id |-> "0", role |-> "assistant", content |-> <<"i">>]>>

\* The values a user's key may hold when the page loads.
StoredChats == {NoEntry, Unparsable, Stringify(<< >>), Stringify(SavedChat)}

\* What one read of the chat endpoint's answer delivers here: whole frames.
ChatReads ==
  {<<"c_a">>, <<"done">>, <<"c_a", "done">>, <<"err_e">>, <<"err_x">>}

\* isAuthenticated && user?.email: the user the effects work for, if any.
ChatUser(a) == IF a.isAuthenticated THEN a.user ELSE NoUser

\* The load effect: the list to show and the storage it leaves.
LoadEffect(msgs, store, u) ==
  IF u = NoUser \/ store[u].kind = "absent"
  THEN [messages |-> msgs, store |-> store]
  ELSE LET parsed == ParseChat(store[u])
       IN IF ~parsed.ok
          THEN [messages |-> msgs, store |-> [store EXCEPT ![u] = NoEntry]]
          ELSE IF parsed.value.kind = "array" /\ Len(parsed.value.items) > 0
          THEN [messages |-> parsed.value.items, store |-> store]
          ELSE [messages |-> msgs, store |-> store]

\* A slip: nothing is written.
SaveEffectNever(msgs, store, u) == store

\* The save effect.
SaveEffect(msgs, store, u) ==
  IF u # NoUser /\ Len(msgs) > 0
  THEN [store EXCEPT ![u] = Stringify(msgs)]
  ELSE store

\* The commit in which the user changes: both effects run on the list of
\* that render, and the save effect again once the loaded list is rendered.
IdentityCommit(msgs, store, u) ==
  LET loaded == LoadEffect(msgs, store, u)
      saved == SaveEffect(msgs, loaded.store, u)
  IN [messages |-> loaded.messages,
      store |-> SaveEffect(loaded.messages, saved, u)]

RECURSIVE MapHistory(_, _)
\* messages.filter(msg => msg.id !== streamingMessageId).map({role, content})
MapHistory(msgs, streamingId) ==
  IF msgs = << >> THEN << >>
  ELSE LET rest == MapHistory(Tail(msgs), streamingId)
           msg == Head(msgs)
       IN IF msg.id # streamingId
          THEN <<[role |-> msg.role, content |-> msg.content]>> \o rest
          ELSE rest

\* A slip: a message that is no longer in the list is put back.
SetContentOrAppend(msgs, id, content) ==
  IF \E i \in 1..Len(msgs) : msgs[i].id = id
  THEN [i \in 1..Len(msgs) |-> IF msgs[i].id = id THEN [msgs[i] EXCEPT !.content = content]
                               ELSE msgs[i]]
  ELSE Append(msgs, [id |-> id, role |-> "assistant", content |-> content])

\* prev.map(msg => msg.id === messageId ? {...msg, content} : msg)
SetContent(msgs, id, content) ==
  [i \in 1..Len(msgs) |-> IF msgs[i].id = id THEN [msgs[i] EXCEPT !.content = content]
                          ELSE msgs[i]]

\* prev.filter(msg => msg.id !== messageId)
RemoveMessage(msgs, id) == SelectSeq(msgs, LAMBDA msg : msg.id # id)

\* The last handler that ran, with the stored value its load effect read,
\* or the history it passed to sendMessage and the ids of the messages of
\* that history that a call in flight could still write to, or the id of
\* the exchange whose call it saw reject.
NoOp ==
  [op |-> "none", entry |-> NoEntry, history |-> << >>, unfinalized |-> {}, id |-> NoId]

ChatStart ==
  [messages |-> <<Greeting>>, streamingMessageId |-> NoId, streamingContent |-> << >>,
   clock |-> 1, last |-> NoOp]

\* The callback handleSend passes to sendMessage, on the conversation c and
\* the accumulatedContent acc of its call.
OnChunkCallback(c, acc, id, call) ==
  IF ~call.done
  THEN LET acc1 == acc \o call.chunk
       IN [chat |-> [c EXCEPT !.messages = SetContent(@, id, acc1),
                              !.streamingContent = acc1],
           acc |-> acc1]
  ELSE [chat |-> [c EXCEPT !.messages = SetContent(@, id, acc),
                           !.streamingMessageId = NoId,
                           !.streamingContent = << >>],
        acc |-> acc]

RECURSIVE ApplyCalls(_, _, _, _)
ApplyCalls(c, acc, id, calls) ==
  IF calls = << >> THEN [chat |-> c, acc |-> acc]
  ELSE LET one == OnChunkCallback(c, acc, id, Head(calls))
       IN ApplyCalls(one.chat, one.acc, id, Tail(calls))

\* The catch of handleSend.
Rollback(c, id) ==
  [c EXCEPT !.messages = RemoveMessage(@, id),
            !.streamingMessageId = NoId,
            !.streamingContent = << >>]

\* The ids of the exchanges awaiting their call that have their message in
\* a list: the messages of the list that may still be written to.
Unfinalized(msgs) ==
  {exchanges[k].id : k \in {n \in 1..Len(exchanges) :
      \E j \in 1..Len(msgs) : msgs[j].id = exchanges[n].id}}

ChatInit ==
  /\ chat = ChatStart
  /\ \E entry \in StoredChats :
       chatStorage = [u \in Users |-> IF u = "u1" THEN entry ELSE NoEntry]
  /\ exchanges = << >>

ChatIdle ==
  /\ chat = ChatStart
  /\ chatStorage = [u \in Users |-> NoEntry]
  /\ exchanges = << >>

\* A user signs in (login, signup, or the stored session validated).
SignIn ==
  /\ ChatUser(auth) = NoUser
  /\ \E u \in Users :
       LET s1 == Login(Session, u, TokenOf(u))
           done == IdentityCommit(chat.messages, chatStorage, ChatUser(s1.auth))
       IN /\ SetSession(s1)
          /\ chat' = [chat EXCEPT !.messages = done.messages,
                                  !.last = [NoOp EXCEPT !.op = "identity",
                                                        !.entry = chatStorage[u]]]
          /\ chatStorage' = done.store
  /\ UNCHANGED <<exchanges, validation, inflight, lastEvent, streamVars, gw, queryVars>>

\* The session ends (logout, or a 401 on a gateway call): the component
\* renders nothing and keeps its state.
SignOut ==
  /\ ChatUser(auth) # NoUser
  /\ SetSession(LogoutFinally(Session))
  /\ chat' = [chat EXCEPT !.last = NoOp]
  /\ UNCHANGED <<chatStorage, exchanges, validation, inflight, lastEvent,
                 streamVars, gw, queryVars>>

\* handleSend up to its await: the form is rendered for a signed-in user
\* and its controls are enabled while streamingMessageId is null.
ChatSend ==
  /\ ChatUser(auth) # NoUser
  /\ chat.streamingMessageId = NoId
  /\ chat.clock <= MaxSends
  /\ LET id == MessageId(chat.clock)
         kept == SelectSeq(chat.messages, LAMBDA msg : msg.id # chat.streamingMessageId)
         msgs == chat.messages \o <<UserEntry(message), Placeholder(id)>>
     IN /\ chat' = [chat EXCEPT !.messages = msgs,
                                !.streamingMessageId = id,
                                !.streamingContent = << >>,
                                !.clock = @ + 1,
                                !.last = [NoOp EXCEPT
                                  !.op = "send",
                                  !.history = MapHistory(chat.messages, chat.streamingMessageId),
                                  !.unfinalized = Unfinalized(kept)]]
        /\ exchanges' = Append(exchanges,
             [id |-> id, st |-> TxStart, acc |-> << >>, nreads |-> 0])
        /\ chatStorage' = SaveEffect(msgs, chatStorage, ChatUser(auth))
  /\ UNCHANGED <<authVars, streamVars, gw, queryVars>>

\* What an exchange keeps of its sendMessage call: the invocations of the
\* callback are handed over, and handleSend uses neither the value the
\* promise resolves with nor, but for the toast, the error it rejects with.
Kept(st) ==
  [st EXCEPT !.calls = << >>, !.error = "", !.response = << >>, !.history = << >>]

\* seq without its i-th element.
RemoveAt(seq, i) == SubSeq(seq, 1, i - 1) \o SubSeq(seq, i + 1, Len(seq))

\* The sendMessage call of the i-th exchange moves to newSt: the callback runs for
\* each new invocation, then the catch of handleSend if the promise has
\* rejected, then the save effect if the list was set.
Deliver(i, newSt, reads1) ==
  LET ex == exchanges[i]
      applied == ApplyCalls(chat, ex.acc, ex.id, newSt.calls)
      rejected == newSt.outcome = "rejected"
      c1 == IF rejected THEN Rollback(applied.chat, ex.id) ELSE applied.chat
  IN /\ chat' = [c1 EXCEPT !.last = IF rejected
                                     THEN [NoOp EXCEPT !.op = "rejected", !.id = ex.id]
                                     ELSE NoOp]
     /\ exchanges' = IF newSt.pc = "end" THEN RemoveAt(exchanges, i)
                     ELSE [exchanges EXCEPT ![i] =
                            [ex EXCEPT !.st = Kept(newSt),
                                       !.acc = applied.acc,
                                       !.nreads = @ + reads1]]
     /\ chatStorage' = IF newSt.calls # << >> \/ rejected
                       THEN SaveEffect(c1.messages, chatStorage, ChatUser(auth))
                       ELSE chatStorage

\* fetch resolves with an ok response.
ChatFetchOk ==
  /\ \E i \in 1..Len(exchanges) :
       /\ exchanges[i].st.pc = "fetch"
       /\ Deliver(i, [exchanges[i].st EXCEPT !.pc = "read", !.lock = "held"], 0)
  /\ UNCHANGED <<authVars, streamVars, gw, queryVars>>

\* fetch rejects, or resolves with a non-success response.
ChatFetchFails ==
  /\ \E i \in 1..Len(exchanges), msg \in {"network error", HttpErrorText(500)} :
       /\ exchanges[i].st.pc = "fetch"
       /\ Deliver(i, Reject([exchanges[i].st EXCEPT !.pc = "end"], msg), 0)
  /\ UNCHANGED <<authVars, streamVars, gw, queryVars>>

\* A read delivers frames with their delimiters.
ChatFrame ==
  /\ \E i \in 1..Len(exchanges), fs \in ChatReads :
       /\ exchanges[i].st.pc = "read"
       /\ exchanges[i].nreads < MaxChatReads
       /\ Deliver(i, OnRead(exchanges[i].st, Flatten(fs)), 1)
  /\ UNCHANGED <<authVars, streamVars, gw, queryVars>>

\* A read reports done.
ChatStreamEnds ==
  /\ \E i \in 1..Len(exchanges) :
       /\ exchanges[i].st.pc = "read"
       /\ Deliver(i, OnDone(exchanges[i].st), 0)
  /\ UNCHANGED <<authVars, streamVars, gw, queryVars>>

\* A read rejects.
ChatReadFails ==
  /\ \E i \in 1..Len(exchanges) :
       /\ exchanges[i].st.pc = "read"
       /\ Deliver(i, OnReadError(exchanges[i].st), 0)
  /\ UNCHANGED <<authVars, streamVars, gw, queryVars>>

\* A slip: reset leaves the list as it is.
ResetMessagesKeepsList(msgs) == msgs

\* const initialMessages = [INITIAL_MESSAGE]
ResetMessages(msgs) == <<Greeting>>

\* handleResetChat, confirmed in the dialog of a signed-in user.
ChatReset ==
  /\ ChatUser(auth) # NoUser
  /\ LET initialMessages == ResetMessages(chat.messages)
         written == IF auth.user # NoUser
                    THEN [chatStorage EXCEPT ![auth.user] = Stringify(initialMessages)]
                    ELSE chatStorage
     IN /\ chat' = [chat EXCEPT !.messages = initialMessages,
                                !.last = [NoOp EXCEPT !.op =
                                  IF chat.last.op \in {"reset", "resetAgain"}
                                  THEN "resetAgain" ELSE "reset"]]
        /\ chatStorage' = SaveEffect(initialMessages, written, ChatUser(auth))
  /\ UNCHANGED <<exchanges, authVars, streamVars, gw, queryVars>>

ChatNext ==
  \/ SignIn \/ SignOut \/ ChatSend \/ ChatReset
  \/ ChatFetchOk \/ ChatFetchFails \/ ChatFrame \/ ChatStreamEnds \/ ChatReadFails

\* ------------------------------------------------------ specifications
\* One streaming call of chatApi.sendMessage.
InitStream == StreamInit /\ AuthIdle /\ GwIdle /\ QueryIdle /\ ChatIdle
SpecStream == InitStream /\ [][StreamNext]_vars

\* One call of apiRequest.
InitGateway == GwInit /\ StreamIdle /\ AuthIdle /\ QueryIdle /\ ChatIdle
SpecGateway == InitGateway /\ [][GwNext]_vars

\* The session store and the requests of a page, from its load on.
InitAuth == AuthInit /\ StreamIdle /\ GwIdle /\ QueryIdle /\ ChatIdle
SpecAuth == InitAuth /\ [][AuthNext]_vars

\* What the two keys may hold when a page loads, a token whose user record
\* is missing included (the key cleared, or written by another page).
StartupStorages ==
  StoredSessions \cup {[token |-> TokenOf(u), user |-> NoUser] : u \in Users}

\* The session store started on any of these.
InitBoot ==
  /\ localStorage \in StartupStorages
  /\ auth = SignedOut
  /\ validation = "unmounted"
  /\ inflight = {}
  /\ lastEvent = NoEvent
  /\ StreamIdle /\ GwIdle /\ QueryIdle /\ ChatIdle
SpecBoot == InitBoot /\ [][AuthNext]_vars

\* The queries and mutations of the pages, and the server's results.
InitQuery == QueryInit /\ StreamIdle /\ AuthIdle /\ GwIdle /\ ChatIdle
SpecQuery == InitQuery /\ [][QueryNext]_vars

\* The results page alone, with every request answered by the list of
\* results: no other query or mutation moves, and no request fails.
OnResultsPage ==
  /\ queries'["currentUser"] = queries["currentUser"]
  /\ queries'["login"] = queries["login"]

ResultsFetched ==
  /\ AttemptSucceeds
  /\ OnResultsPage
  /\ queries'["skinCheckResults"].data.kind = "array"

\* The results page mounts.
ResultsMounts == QueryMounts /\ OnResultsPage

\* The user presses Try Again or Refresh.
ResultsRefreshed == UserRepeats /\ OnResultsPage

PollNext ==
  \/ ResultsMounts
  \/ ResultsRefreshed
  \/ IntervalFires
  \/ ResultsFetched
  \/ ServerAdvances
  \/ ServerAdds

\* The interval's timer fires, the request is answered, and the analysis of
\* every result goes on to its end.
SpecPoll ==
  /\ InitQuery
  /\ [][PollNext]_vars
  /\ WF_vars(IntervalFires)
  /\ WF_vars(ResultsFetched)
  /\ WF_vars(ServerAdvances)

\* The conversation of the chatbot, across sign-ins and sign-outs.
InitChat == ChatInit /\ StreamIdle /\ AuthIdle /\ GwIdle /\ QueryIdle
SpecChat == InitChat /\ [][ChatNext]_vars

\* The same, with every request answered and every response stream going on
\* until it has ended or failed.
FairChat ==
  /\ SpecChat
  /\ WF_vars(ChatFetchOk \/ ChatFetchFails)
  /\ WF_vars(ChatFrame \/ ChatStreamEnds \/ ChatReadFails)

\* ------------------------------------------- claims about the stream
\* What a caller can observe of a call, and the accumulator behind it.
Observable(st) ==
  [pc |-> st.pc, calls |-> st.calls, outcome |-> st.outcome, response |-> st.response,
   history |-> st.history, error |-> st.error, fullResponse |-> st.fullResponse]

\* The body text that reads have delivered so far.
Delivered == SubSeq(AllText, 1, nread)

IsCompletion(k) == k \in {"done", "done_F"}
IsFragment(k) == k \in {"c_a", "c_b"}

\* No completion payload was written, whole or in part.
NoCompletionWritten ==
  /\ \A i \in 1..Len(frames) : ~IsCompletion(frames[i])
  /\ \A i \in 1..Len(tail) : ~IsCompletion(tail[i])

\* C1 (as claimed): when the reader reports done and no completion frame was
\* handled, the call resolves with the text accumulated so far.
C1_EndOfStreamResolves ==
  (tx.reader = "done" /\ NoCompletionWritten)
    => (tx.outcome = "resolved" /\ tx.response = tx.fullResponse)

\* A well-formed stream: fragments, then one completion frame, every frame
\* ended by its delimiter.
WellFormedCompleted ==
  /\ tail = << >>
  /\ frames # << >>
  /\ IsCompletion(frames[Len(frames)])
  /\ \A i \in 1..(Len(frames) - 1) : IsFragment(frames[i])

RECURSIVE ConcatFragments(_)
ConcatFragments(fs) ==
  IF fs = << >> THEN << >> ELSE PayloadOf(Head(fs)).chunk \o ConcatFragments(Tail(fs))

\* The text the claim expects of a well-formed stream.
ExpectedText(fs) ==
  LET last == PayloadOf(fs[Len(fs)])
  IN IF last.full_response # << >> THEN last.full_response
     ELSE ConcatFragments(SubSeq(fs, 1, Len(fs) - 1))

\* C2: once a well-formed stream ending in a completion frame is delivered,
\* the call has resolved with the fragments concatenated in arrival order,
\* or with the completion frame's full text when it carries one.
C2_ResolvedTextIsConcatenationOrOverride ==
  (WellFormedCompleted /\ Wire = << >>)
    => (tx.outcome = "resolved" /\ tx.response = ExpectedText(frames))

C2_Witness ==
  /\ WellFormedCompleted /\ Wire = << >>
  /\ Len(frames) = 3
  /\ frames[1] # frames[2]
  /\ tx.outcome = "resolved"

\* C3 (as claimed): once a frame signalling an error has been handled, the
\* callback's last invocation is completed=true and the call has rejected
\* with the server's message.
C3_ErrorFrameRejects ==
  (tx.sawError # Absent)
    => /\ tx.outcome = "rejected"
       /\ tx.error = tx.sawError
       /\ tx.calls # << >>
       /\ tx.calls[Len(tx.calls)].done

\* The call had the delivered text arrived in a single read.
SingleDelivery ==
  LET w == OnRead([TxStart EXCEPT !.pc = "read", !.lock = "held"], Delivered)
  IN IF w.pc = "end" THEN w
     ELSE IF tx.reader = "done" THEN OnDone(w)
     ELSE IF tx.reader = "errored" THEN OnReadError(w)
     ELSE w

\* C4: however the body text is split into reads, the callback invocations
\* and the result are those of a single read delivering the same text.
C4_ChunkBoundaryIndependence ==
  (tx.lock # "none") => Observable(tx) = Observable(SingleDelivery)

\* A read has ended inside the blank line after a second frame, the first
\* frame having been handled.
C4_Witness ==
  /\ tx.pc = "read"
  /\ tx.buffer = <<"DATA", "c_b", "NL">>
  /\ tx.calls = <<[chunk |-> <<"a">>, done |-> FALSE]>>

\* C5: the history a resolved call returns is the input history, then the
\* user message, then the assistant message holding the resolved text.
C5_HistoryGrowsByTwo ==
  (tx.outcome = "resolved")
    => /\ Len(tx.history) = Len(conversationHistory) + 2
       /\ SubSeq(tx.history, 1, Len(conversationHistory)) = conversationHistory
       /\ tx.history[Len(tx.history) - 1] = [role |-> "user", content |-> message]
       /\ tx.history[Len(tx.history)] = [role |-> "assistant", content |-> tx.response]

C5_Witness ==
  /\ tx.outcome = "resolved"
  /\ conversationHistory # << >>
  /\ tx.response = <<"a", "b">>

\* ------------------------------------- claims about gateway and session
Cleared(storage) == storage.token = NoToken /\ storage.user = NoUser

\* C6: for a 401 response apiRequest has removed the token and the user
\* record and has dispatched auth:logout exactly once.
C6_UnauthorizedClearsAndSignalsOnce ==
  (gw.pc \in {"body", "thrown"} /\ gw.status = 401)
    => (Cleared(gw.storage) /\ gw.events = 1)

C6_Witness ==
  /\ gw.pc = "thrown" /\ gw.status = 401
  /\ gw.events = 1 /\ Cleared(gw.storage)

\* C8 (as claimed): the raised message is "detail" when present, else
\* "message" when present, else the HTTP status text.
C8_DetailElseMessageElseStatusText ==
  (gw.pc = "thrown" /\ gw.status # 0)
    => LET body == gw.response.body
       IN gw.thrown = IF body.kind = "object" /\ body.detail # Absent
                        THEN ToStringJS(body.detail)
                      ELSE IF body.kind = "object" /\ body.message # Absent
                        THEN body.message
                      ELSE gw.response.statusText

\* C8 (amended): the raised message is "detail" when non-empty, else
\* "message" when non-empty, else for a body that is not JSON the status
\* text when non-empty, and in every remaining case of a body that is not
\* JSON or is a JSON object "HTTP error! status: <status code>"; for a JSON
\* null body a TypeError is raised in place of a message.
C8_DetailElseMessageElseStatusCode ==
  (gw.pc = "thrown" /\ gw.status # 0)
    => LET body == gw.response.body
       IN gw.thrown = IF body.kind = "null"
                        THEN "TypeError"
                      ELSE IF body.kind = "object" /\ body.detail \notin {Absent, ""}
                        THEN ToStringJS(body.detail)
                      ELSE IF body.kind = "object" /\ body.message \notin {Absent, ""}
                        THEN body.message
                      ELSE IF body.kind = "text" /\ gw.response.statusText # ""
                        THEN gw.response.statusText
                      ELSE "HTTP error! status: " \o ToString(gw.status)

\* A JSON object with neither field has raised the status-code message.
C8_Witness ==
  /\ gw.pc = "thrown"
  /\ gw.response.body = [kind |-> "object", detail |-> Absent, message |-> Absent]
  /\ gw.response.statusText = "Internal Server Error"
  /\ gw.thrown = "HTTP error! status: 500"

\* C7 (as claimed): a 401 response on any authenticated call, through the
\* gateway or not, clears token and user and fires the signal exactly once.
C7_EveryCallTearsDownOn401 ==
  (lastEvent.status = 401) => (Cleared(localStorage) /\ lastEvent.events = 1)

\* C10 (as claimed): no token in storage implies an unauthenticated session.
C10_NoTokenImpliesUnauthenticated ==
  (localStorage.token = NoToken) => (~auth.isAuthenticated /\ auth.user = NoUser)

\* ------------------------------------------- claims about the queries
\* C9 (as stated): no request is retried automatically, the results query
\* included: whenever a query or mutation has given its error to the
\* component, exactly one request was sent for it.
C9_NoAutomaticRetry ==
  \A k \in Keys : queries[k].status = "error" => queries[k].attempts = 1

\* C9 (amended): the login mutation and the current-user query give their
\* error after exactly one request; the results query, which takes the
\* client's default, is sent once more after its first failure and gives
\* its error after exactly two requests, however the fetch was started.
C9_OnlyDefaultQueriesRetryOnce ==
  /\ \A k \in {"login", "currentUser"} :
       /\ queries[k].attempts <= 1
       /\ queries[k].status = "error" => queries[k].attempts = 1
  /\ queries["skinCheckResults"].attempts <= 2
  /\ queries["skinCheckResults"].status = "error"
       => queries["skinCheckResults"].attempts = 2

C9_Witness ==
  /\ queries["skinCheckResults"].status = "error"
  /\ queries["skinCheckResults"].trigger = "interval"
  /\ queries["login"].status = "error"
  /\ queries["currentUser"].status = "error"

\* ------------------------------------- claims about the session's end
\* The session is destroyed: nothing stored, nobody signed in.
Destroyed ==
  /\ Cleared(localStorage)
  /\ auth.user = NoUser
  /\ ~auth.isAuthenticated

\* C11: when logout has run to its end (its request having succeeded or
\* not), when a gateway call has received 401, and when the validation of
\* the stored token at startup has failed, token and user are absent from
\* storage, the user is null and isAuthenticated is false.
C11_TeardownDestroysSession ==
  (lastEvent.teardown \in {"logout", "unauthorized", "validation"}) => Destroyed

\* A 401 on a gateway call of a signed-in page has ended the session.
C11_Witness ==
  /\ lastEvent.teardown = "unauthorized"
  /\ validation = "finished"
  /\ \E r \in inflight : r.op \in {"updateProfile", "other"} /\ r.phase = "body" /\ r.sent # NoToken
  /\ Destroyed

\* ------------------------------------------- claims about the polling
\* The data is a list with an entry whose analysis has not ended.
HasNonTerminal(data) ==
  /\ data.kind = "array"
  /\ \E i \in 1..Len(data.items) : data.items[i] \in {"pending", "processing"}

\* C18: once a fetch of the results has settled, the 3-second refetch is
\* scheduled exactly when the data last fetched is a list with a pending or
\* processing entry; a fetch started by the interval was scheduled so; and
\* a response that is not a list settles the query without an error.
C18_PollsWhileNonTerminal ==
  LET q == queries["skinCheckResults"]
  IN /\ Settled(q) => (q.interval = RefetchDelay <=> HasNonTerminal(q.data))
     /\ Settled(q) => q.interval \in {NoInterval, RefetchDelay}
     /\ (q.status \in {"fetching", "paused"} /\ q.trigger = "interval")
          => HasNonTerminal(q.data)
     /\ (q.data.kind = "object") => (q.interval = NoInterval \/ ~Settled(q))

\* A fetch the interval started has brought a response that is not a list:
\* the query has settled without an error and nothing more is scheduled.
C18_Witness ==
  LET q == queries["skinCheckResults"]
  IN /\ q.status = "success"
     /\ q.trigger = "interval"
     /\ q.data = NotAnArray
     /\ q.interval = NoInterval

\* ---------------------------------------- claims about malformed frames
\* The frames written, those with a payload that is not JSON left out.
WithoutMalformed == SelectSeq(frames, LAMBDA k : k # "bad")

\* The call had the server written only the frames that parse.
SkippedDelivery ==
  LET w == OnRead([TxStart EXCEPT !.pc = "read", !.lock = "held"],
                  Flatten(WithoutMalformed))
  IN IF w.pc = "end" THEN w
     ELSE IF tx.reader = "done" THEN OnDone(w)
     ELSE IF tx.reader = "errored" THEN OnReadError(w)
     ELSE w

\* C20 (as claimed): once all the frames written are read, the callback's
\* invocations and the result are those of the same stream without its
\* frames whose payload does not parse.
C20_MalformedFrameSkipped ==
  (tx.lock # "none" /\ Wire = << >> /\ tail = << >>)
    => Observable(tx) = Observable(SkippedDelivery)

\* ---------------------------------------------------------------------
\* The conversation (Chatbot.jsx)
\* ---------------------------------------------------------------------

\* The stored value holds a history: the text of a non-empty array.
HasHistory(entry) == entry.kind = "array" /\ Len(entry.items) > 0

\* C12 (as claimed): right after a user has signed in, the list is the
\* history stored under that user's key if there was one, and the single
\* greeting if the key held nothing or a text that does not parse; a text
\* that does not parse is no longer in storage.
C12_IdentityLoadsOwnHistory ==
  chat.last.op = "identity" =>
    /\ HasHistory(chat.last.entry) => chat.messages = chat.last.entry.items
    /\ chat.last.entry.kind \in {"absent", "garbage"} => chat.messages = <<Greeting>>
    /\ chatStorage[ChatUser(auth)] # Unparsable

\* The part of C12 that the load effect does implement.
C12_StoredHistoryLoaded ==
  chat.last.op = "identity" =>
    /\ HasHistory(chat.last.entry) => chat.messages = chat.last.entry.items
    /\ chatStorage[ChatUser(auth)] # Unparsable

\* C13: while a user is signed in, once a change of the list (a send, a
\* fragment, a completion, a rollback, a reset, a load) has been committed
\* with its effects, the value stored under that user's key is the text of
\* the whole current list.
C13_StorageMirrorsList ==
  ChatUser(auth) # NoUser => chatStorage[ChatUser(auth)] = Stringify(chat.messages)

\* A signed-in user's reply has received a fragment and is still streaming.
C13_Witness ==
  /\ ChatUser(auth) # NoUser
  /\ chat.streamingMessageId # NoId
  /\ chat.streamingContent # << >>
  /\ \E j \in 1..Len(chat.messages) :
       /\ chat.messages[j].id = chat.streamingMessageId
       /\ chat.messages[j].content = chat.streamingContent
  /\ chatStorage[ChatUser(auth)] = Stringify(chat.messages)

\* C14: right after a reset, whether the first or one that follows another
\* reset at once, the list is the single greeting and the value stored under
\* the user's key is the text of that single-greeting list.
C14_ResetIdempotent ==
  chat.last.op \in {"reset", "resetAgain"} =>
    /\ chat.messages = <<Greeting>>
    /\ chatStorage[ChatUser(auth)] = Stringify(<<Greeting>>)

\* Reset has run twice in a row on a conversation whose reply was still
\* streaming when the first reset ran.
C14_Witness ==
  /\ chat.last.op = "resetAgain"
  /\ exchanges # << >>
  /\ chat.streamingMessageId # NoId
  /\ chat.messages = <<Greeting>>

\* The positions of the list whose message carries the id being streamed.
Streaming(msgs) == {j \in 1..Len(msgs) : msgs[j].id = chat.streamingMessageId}

\* The positions of the list whose message carries an id at all.
WithId(msgs) == {j \in 1..Len(msgs) : msgs[j].id # Absent}

\* C15 (as claimed): an id is carried by at most one message of the list,
\* the reply being streamed.
C15_OnlyStreamingReplyHasId ==
  /\ Cardinality(WithId(chat.messages)) <= 1
  /\ \A j \in WithId(chat.messages) : chat.messages[j].id = chat.streamingMessageId

\* C15 (amended): at most one message of the list carries the id held in
\* streamingMessageId, none does when streamingMessageId is null, and the
\* one that does is the assistant's reply of the latest send; replies that
\* have completed, and those of a reloaded history, keep their own ids.
C15_OneStreamingReply ==
  /\ Cardinality(Streaming(chat.messages)) <= 1
  /\ chat.streamingMessageId = NoId => Streaming(chat.messages) = {}
  /\ \A j \in Streaming(chat.messages) :
       /\ chat.messages[j].role = "assistant"
       /\ chat.messages[j].id = MessageId(chat.clock - 1)

\* A reply is streaming in a list that holds a reloaded reply and a
\* completed one, each with its id.
C15_Witness ==
  /\ Cardinality(Streaming(chat.messages)) = 1
  /\ Cardinality(WithId(chat.messages)) = 3
  /\ \E j \in WithId(chat.messages) : chat.messages[j].id = "0"

\* C16 (as claimed): the history a send passes to sendMessage holds no
\* message that a call still in flight can write to.
C16_HistoryIsCommitted ==
  chat.last.op = "send" => chat.last.unfinalized = {}

\* The ids of the exchanges in flight whose call has met no error frame.
Undisturbed == {exchanges[k].id : k \in {n \in 1..Len(exchanges) :
                  exchanges[n].st.sawError = Absent}}

\* The part of C16 that holds: the history of a send holds no message of a
\* call in flight other than one that has met an error frame.
C16_HistoryOmitsUndisturbed ==
  chat.last.op = "send" => chat.last.unfinalized \cap Undisturbed = {}

\* C17 (as claimed): at most one exchange has its call in flight (its fetch
\* pending or its stream being read), and while one has, the send control is
\* disabled.
C17_OneExchangeInFlight ==
  /\ Len(exchanges) <= 1
  /\ exchanges # << >> => chat.streamingMessageId # NoId

\* A list holds a message with the id.
Holds(msgs, id) == \E j \in 1..Len(msgs) : msgs[j].id = id

\* The ids of the exchanges that have failed: the one whose call has just
\* rejected, and those in flight whose call has met an error frame.
FailedIds ==
  (IF chat.last.op = "rejected" THEN {chat.last.id} ELSE {})
    \cup {exchanges[k].id : k \in {n \in 1..Len(exchanges) :
            exchanges[n].st.sawError # Absent}}

\* C19 (as claimed): once an exchange has failed, no message with its id is
\* in the list or in the stored history of a user, and its id is not the
\* one held as streaming.
C19_FailedExchangeRolledBack ==
  \A id \in FailedIds :
    /\ ~Holds(chat.messages, id)
    /\ \A u \in Users : ~Holds(chatStorage[u].items, id)
    /\ chat.streamingMessageId # id

\* The part of C19 that holds: right after a call has rejected, its message
\* is not in the list, nor in the stored history of the user signed in, and
\* no id is held as streaming.
C19_RejectedLeavesList ==
  chat.last.op = "rejected" =>
    /\ ~Holds(chat.messages, chat.last.id)
    /\ ChatUser(auth) # NoUser => ~Holds(chatStorage[ChatUser(auth)].items, chat.last.id)
    /\ chat.streamingMessageId = NoId

\* ---------------------------------------------------------------------
\* The transport's exits and callback (api.js 152-257)
\* ---------------------------------------------------------------------

\* C21: the reader's lock is held exactly while the call is in its read
\* loop; once the call has left the loop, by a completion frame, an error
\* rethrown, the end of the stream, a failing read or an exception raised
\* while a frame is handled, the lock is released.
C21_LockReleasedOnExit ==
  /\ tx.lock = "held" <=> tx.pc = "read"
  /\ tx.pc = "end" /\ tx.reader # "open" => tx.lock = "released"
  /\ tx.pc = "end" /\ tx.ctl # "next" => tx.lock = "released"

\* The call has left the loop on the SyntaxError of a frame's payload.
C21_Witness ==
  /\ tx.pc = "end"
  /\ tx.error = "SyntaxError"
  /\ tx.outcome = "rejected"
  /\ tx.lock = "released"

\* ---------------------------------------------------------------------
\* The session store at startup (AuthContext.jsx 12-51)
\* ---------------------------------------------------------------------

\* The current-user fetch of validateAndRestoreAuth is awaited.
Resolving == \E r \in inflight : r.op = "me"

\* C22 (as claimed): when AuthProvider mounts with a token in storage, the
\* step it takes issues the current-user fetch and leaves isLoading true,
\* whether or not a user record is stored with the token.
C22_TokenIsResolvedAtStartup ==
  [][validation = "unmounted" /\ localStorage.token # NoToken
       => /\ \E r \in inflight' : r.op = "me"
          /\ auth'.isLoading]_vars

\* The part of C22 that holds: with a token and a user record stored, the
\* fetch is issued at mount, and loading is not reported as finished while
\* the fetch is awaited.
C22_StoredSessionIsResolved ==
  [][validation = "unmounted" /\ localStorage.token # NoToken /\ localStorage.user # NoUser
       => /\ \E r \in inflight' : r.op = "me"
          /\ auth'.isLoading]_vars

C22_LoadingWhileResolving ==
  Resolving => auth.isLoading /\ validation = "waiting"

\* ---------------------------------------------------------------------
\* The conversation across users, resets and stream outcomes
\* ---------------------------------------------------------------------

\* A message of the conversation stored for u1 when the page loaded; u2
\* has no stored conversation then, and what a user sends here is `message`.
FromFirstUser(msg) == msg.content \in {<<"h">>, <<"i">>}

\* C23 (as claimed): the list shown to u2 and the value stored under u2's
\* key never hold a message of u1's conversation.
C23_HistoriesIsolated ==
  /\ \A j \in 1..Len(chatStorage["u2"].items) : ~FromFirstUser(chatStorage["u2"].items[j])
  /\ ChatUser(auth) = "u2" =>
       \A j \in 1..Len(chat.messages) : ~FromFirstUser(chat.messages[j])

\* The conversation of handleSend's callback after the invocations the call
\* of SpecStream has made: the list as handleSend left it at its await,
\* then the callback applied to each invocation in order.
AfterCalls ==
  LET id == MessageId(1)
      sent == [ChatStart EXCEPT !.messages = <<Greeting, UserEntry(message), Placeholder(id)>>,
                                !.streamingMessageId = id]
  IN ApplyCalls(sent, << >>, id, tx.calls).chat

\* The content of the assistant's message of the exchange.
Committed == AfterCalls.messages[3].content

\* The completion frame of the stream carried a full text.
Overridden == \E i \in 1..Len(frames) : frames[i] = "done_F"

\* C24 (as claimed): once the call has resolved, the content of the
\* assistant's message, which is what the save effect persists, is the text
\* the call resolved with.
C24_CommittedIsResolvedText ==
  tx.outcome = "resolved" => Committed = tx.response

\* The part of C24 that holds: the same, for a completion frame that
\* carries no full text.
C24_CommittedIsConcatenation ==
  tx.outcome = "resolved" /\ ~Overridden => Committed = tx.response

\* An invocation with done = true is the last one of the call.
CompletionIsLast(calls) == \A i \in 1..Len(calls) : calls[i].done => i = Len(calls)

\* C25 (as claimed): the callback is invoked with done = true at most once
\* in a call, and not at all after that.
C25_CompletionSignalledOnce ==
  CompletionIsLast(tx.calls)

\* The part of C25 that holds: the same, for a call that has met no error
\* frame, or one whose text contains "error".
C25_CompletionOnceUnlessSwallowed ==
  tx.sawError = Absent \/ IncludesError(tx.sawError) => CompletionIsLast(tx.calls)

\* C26 (as claimed): with every response stream ending or failing, an id
\* held as streaming is eventually given up: streamingMessageId returns to
\* null, which enables the send control.
C26_StreamingEventuallyEnds ==
  (chat.streamingMessageId # NoId) ~> (chat.streamingMessageId = NoId)

\* ---------------------------------------------------------------------
\* The session under late responses (AuthContext.jsx 12-93)
\* ---------------------------------------------------------------------

\* C27 (as claimed): a user record, in storage or in the session state, is
\* that of the account the stored token was issued to.
C27_UserBelongsToToken ==
  /\ localStorage.user # NoUser => localStorage.user = UserOfToken(localStorage.token)
  /\ auth.user # NoUser => auth.user = UserOfToken(localStorage.token)

\* The same with a token in storage: the record of one account is held
\* under the token of another.
C27_NoForeignUserUnderToken ==
  localStorage.token # NoToken =>
    /\ localStorage.user \in {NoUser, UserOfToken(localStorage.token)}
    /\ auth.user \in {NoUser, UserOfToken(localStorage.token)}

\* A step in which handleSend handles what its sendMessage call delivers:
\* a fragment, the completion, or the failure.
StreamHandled ==
  ChatFetchOk \/ ChatFetchFails \/ ChatFrame \/ ChatStreamEnds \/ ChatReadFails

GreetingOnly(u) ==
  /\ chat.messages = <<Greeting>>
  /\ chatStorage[u] = Stringify(<<Greeting>>)

\* C28: when the list and a user's stored value are the single greeting, as
\* a reset leaves them, no handling of a stream still in flight changes
\* either: no fragment, completion or failure puts a message back.
C28_StreamLeavesResetAlone ==
  [][\A u \in Users :
       StreamHandled /\ GreetingOnly(u)
         => chat'.messages = <<Greeting>> /\ chatStorage'[u] = Stringify(<<Greeting>>)]_vars

\* The only send of the conversation was reset while its reply streamed,
\* and the stream has since completed.
C28_Witness ==
  /\ ChatUser(auth) # NoUser
  /\ chat.clock = 2
  /\ chat.last.op = "none"
  /\ exchanges = << >>
  /\ chat.streamingMessageId = NoId
  /\ GreetingOnly(ChatUser(auth))

\* ---------------------------------------------------------------------
\* The end of polling (Results.jsx 285-300)
\* ---------------------------------------------------------------------

\* The results query holds a list without a pending or processing entry,
\* and no refetch is scheduled or under way on the interval's account.
PollingOver ==
  LET q == queries["skinCheckResults"]
  IN /\ q.data.kind = "array"
     /\ ~HasNonTerminal(q.data)
     /\ q.interval = NoInterval
     /\ q.status = "fetching" => q.trigger # "interval"

\* C29: with every request answered by the list and every result moving on
\* to processed or failed, the results query, once mounted, reaches a list
\* without a pending or processing entry, and from then on no refetch is
\* scheduled by the interval.
C29_PollingTerminates ==
  <>[](queries["skinCheckResults"].status = "idle" \/ PollingOver)

\* The fetch that the interval started has brought a list whose entries are
\* all final, and nothing more is scheduled.
C29_Witness ==
  LET q == queries["skinCheckResults"]
  IN /\ q.status = "success"
     /\ q.trigger = "interval"
     /\ Len(q.data.items) = MaxResults
     /\ PollingOver

\* ---------------------------------------------------------------------
\* The frame left in the buffer at the end of the stream (api.js 162-190)
\* ---------------------------------------------------------------------

\* The body broke off in a completion frame, or in a fragment frame, after
\* the payload and before the end of the blank line.
TrailingCompletion == Len(tail) >= 2 /\ tail[2] = "done_F"

TrailingFragment == Len(tail) >= 2 /\ tail[2] = "c_a"

\* The fragments of the frames written whole, concatenated.
WholeFragments == ConcatFragments(SelectSeq(frames, IsFragment))

\* The fragments the callback was given, concatenated.
GivenFragments ==
  ApplyCalls(ChatStart, << >>, MessageId(1), tx.calls).acc

\* C30 (as claimed): when the reader reports done with such a frame in the
\* buffer, a completion payload in it completes the call, which resolves
\* with the payload's full text, and a fragment in it is neither
\* accumulated nor given to the callback.
C30_TrailingFrameOnlyCompletes ==
  tx.reader = "done" /\ tx.sawError = Absent =>
    /\ TrailingCompletion => tx.outcome = "resolved" /\ tx.response = <<"F">>
    /\ TrailingFragment => tx.fullResponse = WholeFragments /\ GivenFragments = WholeFragments

\* The part of C30 that holds: the trailing frame's fragment goes nowhere,
\* and its completion payload sets the call's own text and flag.
C30_TrailingFrameExamined ==
  tx.reader = "done" /\ tx.sawError = Absent =>
    /\ GivenFragments = WholeFragments
    /\ TrailingCompletion => tx.fullResponse = <<"F">> /\ tx.streamComplete
    /\ ~TrailingCompletion => tx.fullResponse = WholeFragments

====
